---- MODULE Spec2Model ----
(***************************************************************************)
(* Mandelbrot set visualizer: the escape-time renderer and its two colour  *)
(* maps (src/mandelbrotset.rs), the interactive entry point and its        *)
(* viewport parser (src/main.rs) and the chessboard generator              *)
(* (src/chessboard.rs).                                                    *)
(***************************************************************************)
EXTENDS Integers, Sequences, FiniteSets, TLC

(***************************************************************************)
(* f32 arithmetic.  A finite f32 is [k |-> "num", s, m, e] and stands for  *)
(* (-1)^s * m * 2^e with 2^23 <= m < 2^24, or m = 0 for zero; an infinity  *)
(* is [k |-> "inf", s] and a NaN is [k |-> "nan"].  Every operation rounds *)
(* to nearest, ties to even, as the hardware does.  The sign of zero is    *)
(* not kept: the only divisors that can be zero are `width as f32`,        *)
(* `height as f32` and `max_iterations as f32`, which are +0.0, and        *)
(* nothing else in the program tells -0.0 from 0.0.  Exponent overflow and *)
(* subnormal results have no case in F32Pack: the evaluation stops with an *)
(* error should an input ever produce one.  The operations are functions,  *)
(* so that an argument is evaluated once, before the operation is applied. *)
(***************************************************************************)
Pow2[n \in Nat] == IF n = 0 THEN 1 ELSE 2 * Pow2[n - 1]

BitLen[n \in Nat] == IF n = 0 THEN 0 ELSE 1 + BitLen[n \div 2]

F32Zero == [k |-> "num", s |-> 0, m |-> 0, e |-> 0]

F32Inf(s) == [k |-> "inf", s |-> s]

F32NaN == [k |-> "nan"]

\* the f32 values
F32 == [k : {"num"}, s : {0, 1}, m : Nat, e : Int]
          \cup [k : {"inf"}, s : {0, 1}] \cup [k : {"nan"}]

IsNaN(a) == a.k = "nan"

IsInf(a) == a.k = "inf"

IsZero(a) == a.k = "num" /\ a.m = 0

F32Pack[s \in {0, 1}, m \in Nat, e \in Int] ==
    CASE m = 0 -> F32Zero
      [] m # 0 /\ e >= -149 /\ e <= 104 -> [k |-> "num", s |-> s, m |-> m, e |-> e]

\* n * 2^e (plus a non-zero fraction of 2^e below it when sticky) rounded to 24 bits
F32Norm[s \in {0, 1}, n \in Nat, e \in Int, sticky \in BOOLEAN] ==
    IF n = 0 THEN F32Zero
    ELSE LET len == BitLen[n] IN
         IF len <= 24 THEN F32Pack[s, n * Pow2[24 - len], e - (24 - len)]
         ELSE LET sh   == len - 24
                  q    == n \div Pow2[sh]
                  r    == n % Pow2[sh]
                  half == Pow2[sh - 1]
                  up   == r > half \/ (r = half /\ (sticky \/ q % 2 = 1))
                  q2   == IF up THEN q + 1 ELSE q
              IN IF q2 = Pow2[24] THEN F32Pack[s, Pow2[23], e + sh + 1]
                 ELSE F32Pack[s, q2, e + sh]

\* `n as f32` for an integer |n| < 2^31
F32FromInt[n \in Int] == IF n < 0 THEN F32Norm[1, -n, 0, FALSE] ELSE F32Norm[0, n, 0, FALSE]

F32Neg[a \in F32] ==
    IF IsNaN(a) \/ IsZero(a) THEN a ELSE [a EXCEPT !.s = 1 - a.s]

\* two finite non-zero operands, hi.e >= lo.e
F32AddOrdered[hi \in F32, lo \in F32] ==
    LET d == hi.e - lo.e IN
    IF d <= 3
    THEN LET A   == hi.m * Pow2[d]
             sum == (IF hi.s = 1 THEN -A ELSE A) + (IF lo.s = 1 THEN -lo.m ELSE lo.m)
         IN IF sum < 0 THEN F32Norm[1, -sum, lo.e, FALSE] ELSE F32Norm[0, sum, lo.e, FALSE]
    ELSE LET A  == hi.m * 8
             sh == d - 3
             B  == IF sh >= 25 THEN 0 ELSE lo.m \div Pow2[sh]
             st == sh >= 25 \/ lo.m % Pow2[sh] # 0
             n  == IF hi.s = lo.s THEN A + B
                   ELSE IF st THEN A - B - 1 ELSE A - B
         IN F32Norm[hi.s, n, hi.e - 3, st]

F32Add[a \in F32, b \in F32] ==
    IF IsNaN(a) \/ IsNaN(b) THEN F32NaN
    ELSE IF IsInf(a) THEN (IF IsInf(b) /\ b.s # a.s THEN F32NaN ELSE a)
    ELSE IF IsInf(b) THEN b
    ELSE IF a.m = 0 THEN b
    ELSE IF b.m = 0 THEN a
    ELSE IF a.e >= b.e THEN F32AddOrdered[a, b] ELSE F32AddOrdered[b, a]

F32Sub[a \in F32, b \in F32] == F32Add[a, F32Neg[b]]

F32Mul[a \in F32, b \in F32] ==
    IF IsNaN(a) \/ IsNaN(b) THEN F32NaN
    ELSE IF IsInf(a) \/ IsInf(b)
         THEN (IF IsZero(a) \/ IsZero(b) THEN F32NaN ELSE F32Inf((a.s + b.s) % 2))
    ELSE IF a.m = 0 \/ b.m = 0 THEN F32Zero
    ELSE LET a1  == a.m \div 4096
             a0  == a.m % 4096
             b1  == b.m \div 4096
             b0  == b.m % 4096
             mid == a1 * b0 + a0 * b1
             low == a0 * b0 + (mid % 4096) * 4096
             hi  == a1 * b1 + mid \div 4096 + low \div Pow2[24]
             lo  == low % Pow2[24]
         IN F32Norm[(a.s + b.s) % 2, hi * 4 + lo \div Pow2[22], a.e + b.e + 22,
                    lo % Pow2[22] # 0]

\* n quotient bits of r / d, most significant first, and the remainder
DivBits[r \in Nat, d \in Nat, q \in Nat, n \in Nat] ==
    IF n = 0 THEN <<q, r>>
    ELSE IF r >= d THEN DivBits[2 * (r - d), d, 2 * q + 1, n - 1]
    ELSE DivBits[2 * r, d, 2 * q, n - 1]

F32Div[a \in F32, b \in F32] ==
    IF IsNaN(a) \/ IsNaN(b) THEN F32NaN
    ELSE IF IsInf(a) THEN (IF IsInf(b) THEN F32NaN ELSE F32Inf((a.s + b.s) % 2))
    ELSE IF IsInf(b) THEN F32Zero
    ELSE IF b.m = 0 THEN (IF a.m = 0 THEN F32NaN ELSE F32Inf(a.s))
    ELSE IF a.m = 0 THEN F32Zero
    ELSE LET qr == DivBits[a.m, b.m, 0, 27]
         IN F32Norm[(a.s + b.s) % 2, qr[1], a.e - b.e - 26, qr[2] # 0]

\* a < b
F32Lt[a \in F32, b \in F32] ==
    LET magLt(u, v) == v.m # 0 /\ (u.m = 0 \/ u.e < v.e \/ (u.e = v.e /\ u.m < v.m)) IN
    IF IsNaN(a) \/ IsNaN(b) THEN FALSE
    ELSE IF IsInf(a) THEN a.s = 1 /\ b # a
    ELSE IF IsInf(b) THEN b.s = 0
    ELSE IF a.m # 0 /\ a.s = 1
    THEN (b.m = 0 \/ b.s = 0 \/ magLt(b, a))
    ELSE (b.m # 0 /\ b.s = 0 /\ magLt(a, b))

\* a <= b
F32Le[a \in F32, b \in F32] == ~IsNaN(a) /\ ~IsNaN(b) /\ ~F32Lt[b, a]

\* f32::round: to the nearest integer, halves away from zero
F32Round[a \in F32] ==
    IF IsNaN(a) \/ IsInf(a) THEN a
    ELSE IF a.m = 0 \/ a.e >= 0 THEN a
    ELSE LET sh == -a.e IN
         IF sh >= 25 THEN F32Zero
         ELSE F32Norm[a.s,
                      a.m \div Pow2[sh] + (IF a.m % Pow2[sh] >= Pow2[sh - 1] THEN 1 ELSE 0),
                      0, FALSE]

\* `a as u8`: truncation toward zero, saturating at 0 and 255, NaN to 0
F32AsU8[a \in F32] ==
    CASE a.k = "nan" -> 0
      [] a.k = "inf" -> IF a.s = 1 THEN 0 ELSE 255
      [] a.k = "num" ->
           IF a.m = 0 \/ a.s = 1 THEN 0
           ELSE IF a.e >= 0 THEN 255
           ELSE IF -a.e >= 24 THEN 0
           ELSE LET q == a.m \div Pow2[-a.e] IN IF q > 255 THEN 255 ELSE q

(***************************************************************************)
(* State.                                                                  *)
(*                                                                         *)
(* One call of the renderer: the arguments (color_choice, max_iterations,  *)
(* width, height, bounds), the colour map built from them, the locals of   *)
(* generate_mandelbrot_set and the image.  writes[p] is the sequence of    *)
(* iteration counts put_pixel was called with for pixel p; it is history,  *)
(* the program does not hold it.                                           *)
(*                                                                         *)
(* A sweep of color(i) over i = 0 .. max_iterations of one colour map:     *)
(* arg_i is the next argument, cur_color, prev_color and first_color the   *)
(* colours returned for arg_i - 1, arg_i - 2 and 0.                        *)
(*                                                                         *)
(* One run of main: the texts read (choice, cell_count, color_choice,      *)
(* input), the result of parse_bounds, the locals of draw_square, the      *)
(* image main holds and the file it is saved as.                           *)
(***************************************************************************)
VARIABLES pc, color_choice, max_iterations, width, height, bounds, color_map,
          scale_x, scale_y, px, py, x0, y0, x, y, iteration, img, writes,
          arg_i, first_color, prev_color, cur_color,
          choice, cell_count, square_size, cell_i, cell_j, image, input,
          parse_result, filename

renderVars == <<color_choice, max_iterations, width, height, bounds, color_map,
                scale_x, scale_y, px, py, x0, y0, x, y, iteration, img, writes>>

colorVars == <<arg_i, first_color, prev_color, cur_color>>

mainVars == <<choice, cell_count, square_size, cell_i, cell_j, image, input,
              parse_result, filename>>

vars == <<pc, renderVars, colorVars, mainVars>>

\* bounds of the model
MaxWidth == 3
MaxHeight == 3
MaxIter == 4

\* the decimal n/d as an f32
F32Of(n, d) == F32Div[F32FromInt[n], F32FromInt[d]]

Four == F32FromInt[4]
Two == F32FromInt[2]

DefaultBounds == <<F32Of(-2, 1), F32Of(2, 1), F32Of(-3, 2), F32Of(3, 2)>>

\* the viewports the renderer is called with: the default one, one whose first
\* pixel is the plane point (2, 2), one whose bounds are inverted and one that
\* is empty (xmin = xmax, ymin = ymax)
Viewports ==
    { DefaultBounds,
      <<F32Of(2, 1), F32Of(3, 1), F32Of(2, 1), F32Of(3, 1)>>,
      <<F32Of(2, 1), F32Of(-2, 1), F32Of(3, 2), F32Of(-3, 2)>>,
      <<F32Of(1, 1), F32Of(1, 1), F32Of(1, 1), F32Of(1, 1)>> }

(***************************************************************************)
(* Colour maps (trait ColorMap and its two implementations).               *)
(***************************************************************************)
Rgb(r, g, b) == [r |-> r, g |-> g, b |-> b]

Black == Rgb(0, 0, 0)

NoColorMap == [kind |-> "none", max_iterations |-> 0]

GrayscaleMapNew(n) == [kind |-> "gs", max_iterations |-> n]

ColoredColorMapNew(n) == [kind |-> "c", max_iterations |-> n]

get_max_iterations(self) == self.max_iterations

\* the count taken modulo 16 before it is scaled
GrayscaleIntensityBanded(self, i) ==
    F32AsU8[F32Round[F32Mul[F32Div[F32FromInt[i % 16], F32FromInt[self.max_iterations]],
                            F32FromInt[255]]]]

\* `as u8` with no .round() before it
GrayscaleIntensityTruncated(self, i) ==
    F32AsU8[F32Mul[F32Div[F32FromInt[i], F32FromInt[self.max_iterations]],
                   F32FromInt[255]]]

\* (i as f32 / max_iterations as f32 * 255.0).round() as u8
GrayscaleIntensity(self, i) ==
    F32AsU8[F32Round[F32Mul[F32Div[F32FromInt[i], F32FromInt[self.max_iterations]],
                            F32FromInt[255]]]]

GrayscaleMapColor(self, i) ==
    IF i = self.max_iterations THEN Black
    ELSE LET intensity == GrayscaleIntensity(self, i) IN Rgb(intensity, intensity, intensity)

\* The gradient is colorgrad::turbo(), a crate outside the repository: the
\* sample at t = i / (max_iterations - 1) is kept as the pair <<i, max_iterations - 1>>
\* (<<0, 0>> is the NaN of 0.0 / 0.0), a value that is not an Rgb record.
GradientAt(num, den) == [turbo |-> <<num, den>>]

\* the inside test written `i > max_iterations`
ColoredColorMapColorStrict(self, i) ==
    IF i > self.max_iterations THEN Black
    ELSE GradientAt(i, self.max_iterations - 1)

ColoredColorMapColor(self, i) ==
    IF i >= self.max_iterations THEN Black
    ELSE GradientAt(i, self.max_iterations - 1)

\* color_map.color(i) through &dyn ColorMap
color(self, i) ==
    IF self.kind = "gs" THEN GrayscaleMapColor(self, i) ELSE ColoredColorMapColor(self, i)

\* main.rs generate_mandelbrot_set: the map built from color_choice
MakeColorMap(choice_, n) ==
    IF choice_ = "c" THEN ColoredColorMapNew(n) ELSE GrayscaleMapNew(n)

(***************************************************************************)
(* generate_mandelbrot_set.                                                *)
(***************************************************************************)
Pixels(w, h) == (0 .. w - 1) \X (0 .. h - 1)

\* RgbImage::new(width, height): every pixel zero
RgbImageNew(w, h) == [p \in Pixels(w, h) |-> Black]

\* x0 = px as f32 * scale_x + xmin (and the same for y0)
PlaneCoord(p, scale, min) == F32Add[F32Mul[F32FromInt[p], scale], min]

\* x and y declared outside the for loops and never reset
StartAccumulatorStale(x_, y_, iteration_) == <<x_, y_, 0>>

\* let (mut x, mut y, mut iteration) = (0.0, 0.0, 0): fresh for every pixel,
\* whatever the previous pixel left
StartAccumulator(x_, y_, iteration_) == <<F32Zero, F32Zero, 0>>

\* x * x + y * y <= 4.0 && iteration < color_map.get_max_iterations()
LoopCond(x_, y_, iteration_, self) ==
    /\ F32Le[F32Add[F32Mul[x_, x_], F32Mul[y_, y_]], Four]
    /\ iteration_ < get_max_iterations(self)

\* the loop body without `+ x0`
LoopBodyNoOffset(x_, y_, iteration_, x0_, y0_) ==
    <<F32Sub[F32Mul[x_, x_], F32Mul[y_, y_]],
      F32Add[F32Mul[F32Mul[Two, x_], y_], y0_],
      iteration_ + 1>>

\* the loop body without `iteration += 1`
LoopBodyNoCount(x_, y_, iteration_, x0_, y0_) ==
    <<F32Add[F32Sub[F32Mul[x_, x_], F32Mul[y_, y_]], x0_],
      F32Add[F32Mul[F32Mul[Two, x_], y_], y0_],
      iteration_>>

\* the loop body: xtemp = x*x - y*y + x0; y = 2.0*x*y + y0; x = xtemp; iteration += 1
LoopBody(x_, y_, iteration_, x0_, y0_) ==
    <<F32Add[F32Sub[F32Mul[x_, x_], F32Mul[y_, y_]], x0_],
      F32Add[F32Mul[F32Mul[Two, x_], y_], y0_],
      iteration_ + 1>>

\* the inner loop written `for py in 0..height - 1`
NextPixelShort(px_, py_, w, h) ==
    IF py_ + 1 < h - 1 THEN <<px_, py_ + 1>> ELSE <<px_ + 1, 0>>

\* the pixel after (px, py) in `for px in 0..width { for py in 0..height`, or
\* <<width, 0>> when (px, py) is the last one
NextPixel(px_, py_, w, h) ==
    IF py_ + 1 < h THEN <<px_, py_ + 1>> ELSE <<px_ + 1, 0>>

Call ==
    /\ pc = "call"
    /\ color_map' = MakeColorMap(color_choice, max_iterations)
    /\ pc' = "generate"
    /\ UNCHANGED <<color_choice, max_iterations, width, height, bounds,
                   scale_x, scale_y, px, py, x0, y0, x, y, iteration, img, writes>>
    /\ UNCHANGED <<colorVars, mainVars>>

\* lines 75-78 and the entry into the two for loops
Begin ==
    /\ pc = "generate"
    /\ img' = RgbImageNew(width, height)
    /\ writes' = [p \in Pixels(width, height) |-> <<>>]
    /\ scale_x' = F32Div[F32Sub[bounds[2], bounds[1]], F32FromInt[width]]
    /\ scale_y' = F32Div[F32Sub[bounds[4], bounds[3]], F32FromInt[height]]
    /\ px' = 0
    /\ py' = 0
    /\ pc' = IF width > 0 /\ height > 0 THEN "pixel" ELSE "return"
    /\ UNCHANGED <<color_choice, max_iterations, width, height, bounds, color_map,
                   x0, y0, x, y, iteration>>
    /\ UNCHANGED <<colorVars, mainVars>>

\* lines 83-85
PixelStart ==
    /\ pc = "pixel"
    /\ x0' = PlaneCoord(px, scale_x, bounds[1])
    /\ y0' = PlaneCoord(py, scale_y, bounds[3])
    /\ LET acc == StartAccumulator(x, y, iteration) IN
         /\ x' = acc[1]
         /\ y' = acc[2]
         /\ iteration' = acc[3]
    /\ pc' = "while"
    /\ UNCHANGED <<color_choice, max_iterations, width, height, bounds, color_map,
                   scale_x, scale_y, px, py, img, writes>>
    /\ UNCHANGED <<colorVars, mainVars>>

\* lines 88-93, one turn of the while loop
LoopStep ==
    /\ pc = "while"
    /\ LoopCond(x, y, iteration, color_map)
    /\ LET s == LoopBody(x, y, iteration, x0, y0) IN
         /\ x' = s[1]
         /\ y' = s[2]
         /\ iteration' = s[3]
    /\ UNCHANGED <<pc, color_choice, max_iterations, width, height, bounds, color_map,
                   scale_x, scale_y, px, py, x0, y0, img, writes>>
    /\ UNCHANGED <<colorVars, mainVars>>

\* line 88, the condition found false
LoopExit ==
    /\ pc = "while"
    /\ ~LoopCond(x, y, iteration, color_map)
    /\ pc' = "put"
    /\ UNCHANGED <<renderVars, colorVars, mainVars>>

\* line 95 and the step of the for loops
PutPixel ==
    /\ pc = "put"
    /\ img' = [img EXCEPT ![<<px, py>>] = color(color_map, iteration)]
    /\ writes' = [writes EXCEPT ![<<px, py>>] = Append(@, iteration)]
    /\ LET n == NextPixel(px, py, width, height) IN
         /\ px' = n[1]
         /\ py' = n[2]
         /\ pc' = IF n[1] < width THEN "pixel" ELSE "return"
    /\ UNCHANGED <<color_choice, max_iterations, width, height, bounds, color_map,
                   scale_x, scale_y, x0, y0, x, y, iteration>>
    /\ UNCHANGED <<colorVars, mainVars>>

\* line 99
Return ==
    /\ pc = "return"
    /\ pc' = "done"
    /\ UNCHANGED <<renderVars, colorVars, mainVars>>

\* the locals of the renderer before the call
RenderLocalsInit ==
    /\ color_map = NoColorMap
    /\ scale_x = F32Zero
    /\ scale_y = F32Zero
    /\ px = 0
    /\ py = 0
    /\ x0 = F32Zero
    /\ y0 = F32Zero
    /\ x = F32Zero
    /\ y = F32Zero
    /\ iteration = 0
    /\ img = <<>>
    /\ writes = <<>>

NoImage == [kind |-> "none"]

NoResult == [ok |-> FALSE, err |-> ""]

\* the sweep and main, not running
IdleColor ==
    /\ arg_i = 0
    /\ first_color = Black
    /\ prev_color = Black
    /\ cur_color = Black

IdleMain ==
    /\ choice = ""
    /\ cell_count = 0
    /\ square_size = 0
    /\ cell_i = 0
    /\ cell_j = 0
    /\ image = NoImage
    /\ input = <<>>
    /\ parse_result = NoResult
    /\ filename = ""

InitRender ==
    /\ pc = "call"
    /\ color_choice \in {"c", "gs"}
    /\ max_iterations \in 0 .. MaxIter
    /\ width \in 0 .. MaxWidth
    /\ height \in 0 .. MaxHeight
    /\ bounds \in Viewports
    /\ RenderLocalsInit
    /\ IdleColor
    /\ IdleMain

Init == InitRender

Next == Call \/ Begin \/ PixelStart \/ LoopStep \/ LoopExit \/ PutPixel \/ Return

Spec == Init /\ [][Next]_vars

(***************************************************************************)
(* The renderer with the order of the pixels left open (spec.md 5: a       *)
(* reimplementation may visit the pixels in any order, each exactly once). *)
(* The per-pixel steps are those of the code; only the choice of the next  *)
(* pixel differs.                                                          *)
(***************************************************************************)
AnyMaxWidth == 3

Unvisited == {p \in DOMAIN writes : writes[p] = <<>>}

BeginAny ==
    /\ pc = "generate"
    /\ img' = RgbImageNew(width, height)
    /\ writes' = [p \in Pixels(width, height) |-> <<>>]
    /\ scale_x' = F32Div[F32Sub[bounds[2], bounds[1]], F32FromInt[width]]
    /\ scale_y' = F32Div[F32Sub[bounds[4], bounds[3]], F32FromInt[height]]
    /\ \E p \in Pixels(width, height) : px' = p[1] /\ py' = p[2]
    /\ pc' = "pixel"
    /\ UNCHANGED <<color_choice, max_iterations, width, height, bounds, color_map,
                   x0, y0, x, y, iteration>>
    /\ UNCHANGED <<colorVars, mainVars>>

PutPixelAny ==
    /\ pc = "put"
    /\ img' = [img EXCEPT ![<<px, py>>] = color(color_map, iteration)]
    /\ writes' = [writes EXCEPT ![<<px, py>>] = Append(@, iteration)]
    /\ LET rest == Unvisited \ {<<px, py>>} IN
         IF rest = {}
         THEN px' = width /\ py' = 0 /\ pc' = "return"
         ELSE \E p \in rest : px' = p[1] /\ py' = p[2] /\ pc' = "pixel"
    /\ UNCHANGED <<color_choice, max_iterations, width, height, bounds, color_map,
                   scale_x, scale_y, x0, y0, x, y, iteration>>
    /\ UNCHANGED <<colorVars, mainVars>>

InitAny ==
    /\ pc = "call"
    /\ color_choice \in {"c", "gs"}
    /\ max_iterations \in 0 .. MaxIter
    /\ width \in 1 .. AnyMaxWidth
    /\ height \in 1 .. 2
    /\ bounds = DefaultBounds
    /\ RenderLocalsInit
    /\ IdleColor
    /\ IdleMain

NextAny == Call \/ BeginAny \/ PixelStart \/ LoopStep \/ LoopExit \/ PutPixelAny \/ Return

SpecAnyOrder == InitAny /\ [][NextAny]_vars

\* the while loop of one pixel, run to its exit
RECURSIVE EscapeLoop(_, _, _, _, _, _)
EscapeLoop(x_, y_, iteration_, x0_, y0_, self) ==
    IF LoopCond(x_, y_, iteration_, self)
    THEN LET s == LoopBody(x_, y_, iteration_, x0_, y0_)
         IN EscapeLoop(s[1], s[2], s[3], x0_, y0_, self)
    ELSE <<x_, y_, iteration_>>

\* the image the code's own order (px outer, py inner) leaves, from pixel p on
RECURSIVE ColumnMajor(_, _, _)
ColumnMajor(p, acc, grid) ==
    IF p[1] >= width THEN grid
    ELSE LET start == StartAccumulator(acc[1], acc[2], acc[3])
             end   == EscapeLoop(start[1], start[2], start[3],
                                 PlaneCoord(p[1], scale_x, bounds[1]),
                                 PlaneCoord(p[2], scale_y, bounds[3]), color_map)
         IN ColumnMajor(NextPixel(p[1], p[2], width, height), end,
                        [grid EXCEPT ![p] = color(color_map, end[3])])

SequentialImage ==
    IF width > 0 /\ height > 0
    THEN ColumnMajor(<<0, 0>>, <<F32Zero, F32Zero, 0>>, RgbImageNew(width, height))
    ELSE RgbImageNew(width, height)

\* the renderer runs to completion: no I/O, no suspension point (spec.md 5)
FairSpec == Spec /\ WF_vars(Next)

(***************************************************************************)
(* color(i) of one grayscale map, called for i = 0, 1, ..., max_iterations *)
(* (the domain spec.md 4.1 gives it).                                      *)
(***************************************************************************)
MaxGrayIter == 512

ColorCall ==
    /\ pc = "sweep"
    /\ arg_i <= get_max_iterations(color_map)
    /\ cur_color' = color(color_map, arg_i)
    /\ prev_color' = cur_color
    /\ first_color' = IF arg_i = 0 THEN color(color_map, arg_i) ELSE first_color
    /\ arg_i' = arg_i + 1
    /\ UNCHANGED <<pc, renderVars, mainVars>>

ColorDone ==
    /\ pc = "sweep"
    /\ arg_i > get_max_iterations(color_map)
    /\ pc' = "swept"
    /\ UNCHANGED <<renderVars, colorVars, mainVars>>

InitColor ==
    /\ pc = "sweep"
    /\ color_choice = "gs"
    /\ max_iterations \in 0 .. MaxGrayIter
    /\ color_map = MakeColorMap(color_choice, max_iterations)
    /\ width = 0
    /\ height = 0
    /\ bounds = DefaultBounds
    /\ scale_x = F32Zero
    /\ scale_y = F32Zero
    /\ px = 0
    /\ py = 0
    /\ x0 = F32Zero
    /\ y0 = F32Zero
    /\ x = F32Zero
    /\ y = F32Zero
    /\ iteration = 0
    /\ img = <<>>
    /\ writes = <<>>
    /\ IdleColor
    /\ IdleMain

NextColor == ColorCall \/ ColorDone

SpecColor == InitColor /\ [][NextColor]_vars

(***************************************************************************)
(* chessboard.rs: draw_square.  The image is kept as the squares painted   *)
(* so far: square (i, j) stands for the put_pixel calls of the two inner   *)
(* loops, one for each pixel (i * square_size + x, j * square_size + y)    *)
(* with 0 <= x, y < square_size.  All squares of one image have the same   *)
(* size, so pixel (px, py) lies in square (px div square_size,             *)
(* py div square_size) and in no other; a pixel in no painted square has   *)
(* the zero RgbImage::new gave it.                                         *)
(***************************************************************************)
size == 500

MaxCells == 4

TestCells == 10

CellCounts == (0 .. MaxCells) \cup {TestCells}

White == Rgb(255, 255, 255)

\* the colour test written `i % 2 == 0`
SquareColorByRow(i, j) == IF i % 2 = 0 THEN White ELSE Black

\* lines 19-23
SquareColor(i, j) == IF (i + j) % 2 = 0 THEN White ELSE Black

ChessboardNew(w, h, sq) ==
    [kind |-> "chessboard", width |-> w, height |-> h, square_size |-> sq,
     squares |-> <<>>]

get_pixel(im, px_, py_) ==
    IF im.square_size > 0
       /\ <<px_ \div im.square_size, py_ \div im.square_size>> \in DOMAIN im.squares
    THEN im.squares[<<px_ \div im.square_size, py_ \div im.square_size>>]
    ELSE Black

\* lines 26-32 for one (i, j): the square added to the image
PaintSquare(im, i, j, c) ==
    IF im.square_size = 0 THEN im
    ELSE [im EXCEPT !.squares =
            [q \in DOMAIN im.squares \cup {<<i, j>>} |->
               IF q = <<i, j>> THEN c ELSE im.squares[q]]]

\* put_pixel panics on a pixel outside the image
SquareInBounds(im, i, j) ==
    \/ im.square_size = 0
    \/ /\ i * im.square_size + im.square_size <= im.width
       /\ j * im.square_size + im.square_size <= im.height

(***************************************************************************)
(* main.rs: parse_bounds.  A text is a sequence of one-character strings.  *)
(***************************************************************************)
Digits == <<"0", "1", "2", "3", "4", "5", "6", "7", "8", "9">>

IsDigit(c) == \E d \in 1 .. 10 : Digits[d] = c

DigitValue(c) == (CHOOSE d \in 1 .. 10 : Digits[d] = c) - 1

\* str::split(sep): the pieces between the separators, one piece for a text
\* without any
RECURSIVE Split(_, _)
Split(t, sep) ==
    IF \E n \in 1 .. Len(t) : t[n] = sep
    THEN LET first == CHOOSE n \in 1 .. Len(t) :
                         t[n] = sep /\ \A m \in 1 .. n - 1 : t[m] # sep
         IN <<SubSeq(t, 1, first - 1)>> \o Split(SubSeq(t, first + 1, Len(t)), sep)
    ELSE <<t>>

RECURSIVE Pow10(_)
Pow10(n) == IF n = 0 THEN 1 ELSE 10 * Pow10(n - 1)

\* the digits of t read as a decimal integer
RECURSIVE DecimalValue(_)
DecimalValue(t) ==
    IF t = <<>> THEN 0
    ELSE 10 * DecimalValue(SubSeq(t, 1, Len(t) - 1)) + DigitValue(t[Len(t)])

\* str::parse::<f32>: an optional sign, then digits with at most one '.' and at
\* least one digit; no surrounding white space is accepted.  The exponent form
\* and the spellings of inf and nan need letters the texts of the model do not
\* hold.  The value is the decimal rounded to the nearest f32.
ParseF32(t) ==
    LET signed == Len(t) > 0 /\ t[1] \in {"+", "-"}
        body   == IF signed THEN SubSeq(t, 2, Len(t)) ELSE t
        dots   == {n \in 1 .. Len(body) : body[n] = "."}
        digits == {n \in 1 .. Len(body) : IsDigit(body[n])}
        wellFormed == /\ Cardinality(dots) <= 1
                      /\ Cardinality(digits) >= 1
                      /\ dots \cup digits = 1 .. Len(body)
        dot    == IF dots = {} THEN Len(body) + 1 ELSE CHOOSE n \in dots : TRUE
        whole  == SubSeq(body, 1, dot - 1) \o SubSeq(body, dot + 1, Len(body))
        frac   == IF dots = {} THEN 0 ELSE Len(body) - dot
        n      == DecimalValue(whole)
    IN IF wellFormed
       THEN [ok |-> TRUE,
             value |-> F32Of(IF signed /\ t[1] = "-" THEN -n ELSE n, Pow10(frac))]
       ELSE [ok |-> FALSE]

\* lines 107-118
parse_bounds(t) ==
    LET parts == Split(t, ";") IN
    IF Len(parts) = 4
    THEN LET xmin == ParseF32(parts[1])
             xmax == ParseF32(parts[2])
             ymin == ParseF32(parts[3])
             ymax == ParseF32(parts[4])
         IN IF ~xmin.ok THEN [ok |-> FALSE, err |-> "Error parsing xmin"]
            ELSE IF ~xmax.ok THEN [ok |-> FALSE, err |-> "Error parsing xmax"]
            ELSE IF ~ymin.ok THEN [ok |-> FALSE, err |-> "Error parsing ymin"]
            ELSE IF ~ymax.ok THEN [ok |-> FALSE, err |-> "Error parsing ymax"]
            ELSE [ok |-> TRUE,
                  value |-> <<xmin.value, xmax.value, ymin.value, ymax.value>>]
    ELSE [ok |-> FALSE, err |-> "Input must be in the format xmin;xmax;ymin;ymax"]

\* Result::unwrap_or
unwrap_or(res, default) == IF res.ok THEN res.value ELSE default

\* the texts typed at the viewport prompt
Texts ==
    { <<"1", ";", "2", ";", "3">>,
      <<"a", ";", "2", ";", "3", ";", "4">>,
      <<"-", "2", ";", "2", ";", "-", "1", ".", "5", ";", "1", ".", "5">>,
      <<"1", ";", "2", ";", "3", ";", "4">>,
      <<"2", ";", "1", ";", "4", ";", "3">>,
      <<"-", ".", "5", ";", "0", ".", ";", "+", "0", ";", "0", ".", "2", "5">>,
      <<>>,
      <<"1", ";", "2", ";", "3", ";", "4", ";", "5">>,
      <<"1", ";", ";", "3", ";", "4">>,
      <<"1", ";", "2", ";", "3", ";", ".">>,
      <<"1", ";", "2", ";", "-", ";", "4">>,
      <<"1", ";", "1", ".", "2", ".", "3", ";", "3", ";", "4">>,
      <<" ", "1", ";", "2", ";", "3", ";", "4">> }

(***************************************************************************)
(* main.rs: main.  The Mandelbrot image main holds is kept as the call     *)
(* that produces it, generate_mandelbrot_set(800, 600, color map, bounds): *)
(* its 480,000 pixels are those of the renderer above for these arguments. *)
(***************************************************************************)
MainMaxIterations == 100

MainWidth == 800

MainHeight == 600

NoBounds == <<F32NaN, F32NaN, F32NaN, F32NaN>>

\* line 48-50 and 96-99
ReadChoice ==
    /\ pc = "menu"
    /\ \E c \in {"1", "2", "3"} :
         /\ choice' = c
         /\ pc' = IF c = "1" THEN "cells" ELSE IF c = "2" THEN "color" ELSE "menu"
    /\ UNCHANGED <<renderVars, colorVars, cell_count, square_size, cell_i, cell_j,
                   image, input, parse_result, filename>>

\* lines 53-55
ReadCellCount ==
    /\ pc = "cells"
    /\ cell_count' \in CellCounts
    /\ pc' = "draw_square"
    /\ UNCHANGED <<renderVars, colorVars, choice, square_size, cell_i, cell_j,
                   image, input, parse_result, filename>>

\* chessboard.rs lines 12-14 and the entry into the loops; the division panics
\* for cell_count = 0
DrawBegin ==
    /\ pc = "draw_square"
    /\ IF cell_count = 0
       THEN /\ pc' = "panic"
            /\ UNCHANGED <<square_size, image, cell_i, cell_j>>
       ELSE /\ square_size' = size \div cell_count
            /\ image' = ChessboardNew(size, size, size \div cell_count)
            /\ cell_i' = 0
            /\ cell_j' = 0
            /\ pc' = "square"
    /\ UNCHANGED <<renderVars, colorVars, choice, cell_count, input, parse_result,
                   filename>>

\* chessboard.rs lines 18-33, one turn of the loop over j, and the step of the
\* loops over i and j
DrawSquare ==
    /\ pc = "square"
    /\ IF SquareInBounds(image, cell_i, cell_j)
       THEN /\ image' = PaintSquare(image, cell_i, cell_j, SquareColor(cell_i, cell_j))
            /\ cell_j' = IF cell_j + 1 < cell_count THEN cell_j + 1 ELSE 0
            /\ cell_i' = IF cell_j + 1 < cell_count THEN cell_i ELSE cell_i + 1
            /\ pc' = IF cell_j + 1 < cell_count \/ cell_i + 1 < cell_count
                     THEN "square" ELSE "drawn"
       ELSE /\ pc' = "panic"
            /\ UNCHANGED <<image, cell_i, cell_j>>
    /\ UNCHANGED <<renderVars, colorVars, choice, cell_count, square_size, input,
                   parse_result, filename>>

\* lines 66-69, 72, 77 and 90-92
ReadColorChoice ==
    /\ pc = "color"
    /\ \E c \in {"c", "gs", "x"} :
         /\ color_choice' = c
         /\ max_iterations' = IF c \in {"c", "gs"} THEN MainMaxIterations ELSE max_iterations
         /\ bounds' = IF c = "c" THEN DefaultBounds ELSE bounds
         /\ pc' = IF c = "gs" THEN "read_bounds" ELSE IF c = "c" THEN "render" ELSE "color"
    /\ UNCHANGED <<width, height, color_map, scale_x, scale_y, px, py, x0, y0, x, y,
                   iteration, img, writes, colorVars, mainVars>>

\* lines 73-75
ReadBounds ==
    /\ pc = "read_bounds"
    /\ \E t \in Texts :
         /\ input' = t
         /\ parse_result' = parse_bounds(t)
         /\ bounds' = unwrap_or(parse_bounds(t), DefaultBounds)
    /\ pc' = "render"
    /\ UNCHANGED <<color_choice, max_iterations, width, height, color_map, scale_x,
                   scale_y, px, py, x0, y0, x, y, iteration, img, writes, colorVars,
                   choice, cell_count, square_size, cell_i, cell_j, image, filename>>

\* line 80: main.rs generate_mandelbrot_set (lines 121-129)
Render ==
    /\ pc = "render"
    /\ color_map' = MakeColorMap(color_choice, max_iterations)
    /\ width' = MainWidth
    /\ height' = MainHeight
    /\ image' = [kind |-> "mandelbrot", width |-> MainWidth, height |-> MainHeight,
                 color_map |-> MakeColorMap(color_choice, max_iterations),
                 bounds |-> bounds]
    /\ pc' = "drawn"
    /\ UNCHANGED <<color_choice, max_iterations, bounds, scale_x, scale_y, px, py,
                   x0, y0, x, y, iteration, img, writes, colorVars,
                   choice, cell_count, square_size, cell_i, cell_j, input,
                   parse_result, filename>>

\* lines 56-58 and 81-86: the file name, and image.save(..)?, which may fail
Save ==
    /\ pc = "drawn"
    /\ filename' = IF image.kind = "chessboard"
                   THEN "chessboard_" \o ToString(cell_count) \o "x"
                           \o ToString(cell_count) \o ".png"
                   ELSE IF color_choice = "c" THEN "colored_mandelbrot.png"
                   ELSE "grayscale_mandelbrot.png"
    /\ pc' \in {"saved", "failed"}
    /\ UNCHANGED <<renderVars, colorVars, choice, cell_count, square_size, cell_i,
                   cell_j, image, input, parse_result>>

\* lines 60 and 88: display_image(image)?, which may fail, then the breaks and Ok(())
Display ==
    /\ pc = "saved"
    /\ pc' \in {"exit", "failed"}
    /\ UNCHANGED <<renderVars, colorVars, mainVars>>

InitMain ==
    /\ pc = "menu"
    /\ color_choice = ""
    /\ max_iterations = 0
    /\ width = 0
    /\ height = 0
    /\ bounds = NoBounds
    /\ RenderLocalsInit
    /\ IdleColor
    /\ IdleMain

NextMain ==
    \/ ReadChoice \/ ReadCellCount \/ DrawBegin \/ DrawSquare
    \/ ReadColorChoice \/ ReadBounds \/ Render \/ Save \/ Display

SpecMain == InitMain /\ [][NextMain]_vars

(***************************************************************************)
(* Properties of the renderer.                                             *)
(***************************************************************************)
Allocated == pc \in {"pixel", "while", "put", "return", "done"}

Escaped(x_, y_) == ~F32Le[F32Add[F32Mul[x_, x_], F32Mul[y_, y_]], Four]

\* C1: for width > 0 and height > 0 the returned grid has exactly width*height
\* pixels, each (px, py) with 0 <= px < width, 0 <= py < height written exactly
\* once; while the renderer runs no pixel has been written twice.
C1_FullCoverage ==
    /\ Allocated => \A p \in DOMAIN writes : Len(writes[p]) <= 1
    /\ (pc = "done" /\ width > 0 /\ height > 0) =>
         /\ DOMAIN img = Pixels(width, height)
         /\ Cardinality(DOMAIN img) = width * height
         /\ \A p \in Pixels(width, height) : Len(writes[p]) = 1

C1_Witness ==
    /\ pc = "done"
    /\ width > 1
    /\ height > 1
    /\ \A p \in Pixels(width, height) : Len(writes[p]) = 1

\* C2: under both colour modes, a pixel whose loop ended with
\* iteration = max_iterations is written as exactly (0, 0, 0).
C2_InsideIsBlack ==
    Allocated =>
      \A p \in DOMAIN img :
        \A n \in 1 .. Len(writes[p]) :
          (n = Len(writes[p]) /\ writes[p][n] = get_max_iterations(color_map))
             => img[p] = Black

C2_Witness ==
    /\ pc = "done"
    /\ color_map.kind = "c"
    /\ get_max_iterations(color_map) >= 2
    /\ \E p \in DOMAIN img : writes[p] = <<get_max_iterations(color_map)>> /\ img[p] = Black
    /\ \E p \in DOMAIN img : writes[p] # <<get_max_iterations(color_map)>> /\ img[p] # Black

ConfigError ==
    \/ ~F32Lt[bounds[1], bounds[2]]
    \/ ~F32Lt[bounds[3], bounds[4]]
    \/ width = 0
    \/ height = 0
    \/ max_iterations < 1
    \/ (max_iterations <= 1 /\ color_choice = "c")

\* C4: a request with a configuration error is rejected before any pixel is
\* computed: no colour map is constructed from it and no grid is returned.
C4_ConfigErrorRejected ==
    ConfigError => (color_map = NoColorMap /\ pc \in {"call"})

\* C5 as stated: for the plane point (2, 2) and max_iterations >= 1 the loop
\* ends with iteration = 0.
C5_CountIsZero ==
    (pc = "put" /\ x0 = Two /\ y0 = Two /\ get_max_iterations(color_map) >= 1)
       => iteration = 0

\* C5 amended: for the plane point (2, 2) and max_iterations >= 1 the loop ends
\* with iteration = 1 (the first turn is always taken, from x = y = 0, and the
\* point has left the radius after it), and 1 is the count put_pixel's colour
\* is computed from.
C5_CountIsOne ==
    /\ (pc = "put" /\ x0 = Two /\ y0 = Two /\ get_max_iterations(color_map) >= 1)
          => (iteration = 1 /\ Escaped(x, y))
    /\ (Allocated /\ get_max_iterations(color_map) >= 1) =>
          \A p \in DOMAIN writes :
             (PlaneCoord(p[1], scale_x, bounds[1]) = Two
               /\ PlaneCoord(p[2], scale_y, bounds[3]) = Two
               /\ writes[p] # <<>>) => writes[p] = <<1>>

C5_Witness ==
    /\ pc = "put"
    /\ x0 = Two
    /\ y0 = Two
    /\ get_max_iterations(color_map) >= 2
    /\ iteration = 1

\* C10: for every max_iterations >= 0 the while loop takes at most
\* max_iterations turns and leaves through one of its two exits (the point is
\* outside the radius, or iteration = max_iterations); every count handed to
\* color lies in 0..max_iterations; and generate_mandelbrot_set returns.
C10_Terminates ==
    /\ [](Allocated =>
            /\ iteration \in 0 .. get_max_iterations(color_map)
            /\ pc = "put" =>
                 (Escaped(x, y) \/ iteration = get_max_iterations(color_map))
            /\ \A p \in DOMAIN writes : \A n \in 1 .. Len(writes[p]) :
                 writes[p][n] \in 0 .. get_max_iterations(color_map))
    /\ <>(pc = "done")

C10_Witness ==
    /\ pc = "done"
    /\ get_max_iterations(color_map) >= 2
    /\ \E p \in DOMAIN writes : writes[p] = <<get_max_iterations(color_map)>>
    /\ \E p \in DOMAIN writes : \E n \in 1 .. get_max_iterations(color_map) - 1 :
          writes[p] = <<n>>

\* C8: the final grid does not depend on the order in which the pixels are
\* computed: whatever order visits each pixel once, the grid at return is the
\* grid the code's column-major order produces.
C8_OrderIndependent ==
    pc = "done" => img = SequentialImage

\* the pixel the code computes first is the one computed last
C8_Witness ==
    /\ pc = "put"
    /\ <<px, py>> = <<0, 0>>
    /\ width * height >= 4
    /\ Unvisited = {<<0, 0>>}
    /\ \E p \in DOMAIN img : img[p] # Black

(***************************************************************************)
(* Properties of the grayscale map.  After k calls of the sweep arg_i = k  *)
(* and cur_color = color(k - 1).                                           *)
(***************************************************************************)
Escaping == arg_i >= 1 /\ arg_i - 1 < get_max_iterations(color_map)

\* C6 as stated: for max_iterations >= 1 the colour of every count i with
\* 0 <= i < max_iterations differs from the inside colour color(max_iterations),
\* which is (0, 0, 0).
C6_NeverInsideColour ==
    /\ (arg_i = get_max_iterations(color_map) + 1) => cur_color = Black
    /\ (get_max_iterations(color_map) >= 1 /\ Escaping) => cur_color # Black

\* C6 amended: color(max_iterations) = (0, 0, 0), and for max_iterations in
\* 1..510 the colour of every count i with 1 <= i < max_iterations differs from
\* it; color(0) is (0, 0, 0) too, the inside colour itself.
C6_DistinctFromOne ==
    /\ (arg_i = get_max_iterations(color_map) + 1) => cur_color = Black
    /\ (get_max_iterations(color_map) \in 1 .. 510 /\ Escaping /\ arg_i >= 2)
          => cur_color # Black
    /\ (get_max_iterations(color_map) >= 1 /\ Escaping /\ arg_i = 1)
          => cur_color = Black

C6_Witness ==
    /\ get_max_iterations(color_map) = 100
    /\ arg_i = 2
    /\ cur_color = Rgb(3, 3, 3)
    /\ first_color = Black

\* C7: the grayscale intensity is non-decreasing in i over 0 <= i < max_iterations
\* (each colour is at least the one before it, and is a gray r = g = b), and for
\* max_iterations > 1 intensity(0) < intensity(max_iterations - 1).
C7_Monotone ==
    /\ Escaping => (cur_color.r = cur_color.g /\ cur_color.g = cur_color.b)
    /\ (Escaping /\ arg_i >= 2) => prev_color.r <= cur_color.r
    /\ (get_max_iterations(color_map) > 1 /\ arg_i = get_max_iterations(color_map))
          => first_color.r < cur_color.r

C7_Witness ==
    /\ get_max_iterations(color_map) = 100
    /\ arg_i = get_max_iterations(color_map)
    /\ first_color.r = 0
    /\ prev_color.r = 250
    /\ cur_color.r = 252

(***************************************************************************)
(* Properties of main and of the chessboard.                               *)
(***************************************************************************)
\* the text does not split on ';' into exactly four fields, or one of its
\* fields is no number
MalformedViewport(t) ==
    LET parts == Split(t, ";") IN
    Len(parts) # 4 \/ \E n \in 1 .. Len(parts) : ~ParseF32(parts[n]).ok

AfterViewportPrompt ==
    /\ pc \in {"render", "drawn", "saved", "failed", "exit"}
    /\ choice = "2"
    /\ color_choice = "gs"

\* C3: malformed viewport text fails validation with a descriptive error: no
\* grid is produced for that request and no default viewport is substituted.
C3_MalformedRejected ==
    (AfterViewportPrompt /\ MalformedViewport(input)) =>
       /\ ~parse_result.ok
       /\ parse_result.err # ""
       /\ bounds # DefaultBounds
       /\ image.kind # "mandelbrot"

\* C9: for cell_count >= 1 draw_square returns (it does not panic) a 500x500
\* image in which, with square_size = 500 div cell_count, every pixel
\* (i*square_size + x, j*square_size + y), 0 <= i, j < cell_count,
\* 0 <= x, y < square_size, is white when i + j is even and black when odd.
C9_Checkerboard ==
    /\ cell_count >= 1 => pc # "panic"
    /\ (pc = "drawn" /\ image.kind = "chessboard" /\ cell_count >= 1) =>
         /\ image.width = 500
         /\ image.height = 500
         /\ LET sq == 500 \div cell_count IN
            \A i \in 0 .. cell_count - 1 : \A j \in 0 .. cell_count - 1 :
              \A x_ \in 0 .. sq - 1 : \A y_ \in 0 .. sq - 1 :
                get_pixel(image, i * sq + x_, j * sq + y_)
                   = IF (i + j) % 2 = 0 THEN Rgb(255, 255, 255) ELSE Rgb(0, 0, 0)

C9_Witness ==
    /\ pc = "drawn"
    /\ image.kind = "chessboard"
    /\ cell_count = 3
    /\ get_pixel(image, 497, 497) = White
    /\ get_pixel(image, 166, 165) = Black
    /\ get_pixel(image, 499, 0) = Black
====
